---- MODULE Spec2Model ----
(***************************************************************************)
(* Model of the discrete distribution engine of dicer (src/discrete.rs):   *)
(* the Distribution type (occurrence_by_value + offset), its operators,    *)
(* and the recursive evaluator Expression::distribution, rendered as a     *)
(* post-order stack machine (one step per expression node).                *)
(***************************************************************************)
EXTENDS Integers, Sequences, FiniteSets, TLC

\* ---------------------------------------------------------------- bounds
\* Largest die face count offered to Expression::Die.
MaxDie == 2
\* Modifier literals range over -MaxMod..MaxMod.
MaxMod == 1
\* Keep-counts of Highest(n) / Lowest(n) range over 0..MaxKeep.
MaxKeep == 1
\* A repetition is only enumerated when it rolls at most MaxCount dice.
MaxCount == 2
\* Number of expression nodes evaluated in one run.
MaxNodes == 5
\* Number of evaluated subexpressions pending at once (also the Sum arity).
MaxDepth == 3
\* add_occurrences driver: number of calls, largest count, value magnitude.
MaxCalls == 3
MaxOcc == 2
MaxValue == 2

\* ------------------------------------------------------- sequence helpers
\* Sum and product of s[lo..hi], by halves (evaluation depth log of the length).
RECURSIVE SumRange(_, _, _)
SumRange(s, lo, hi) ==
    IF lo > hi THEN 0
    ELSE IF lo = hi THEN s[lo]
    ELSE SumRange(s, lo, (lo + hi) \div 2) + SumRange(s, (lo + hi) \div 2 + 1, hi)

SumSeq(s) == SumRange(s, 1, Len(s))

RECURSIVE ProductSeq(_)
ProductSeq(s) == IF s = <<>> THEN 1 ELSE Head(s) * ProductSeq(Tail(s))

RECURSIVE Flatten(_)
Flatten(ss) == IF ss = <<>> THEN <<>> ELSE Head(ss) \o Flatten(Tail(ss))

RECURSIVE Pow(_, _)
Pow(b, e) == IF e = 0 THEN 1 ELSE b * Pow(b, e - 1)

Zeros(n) == [i \in 1..n |-> 0]

Reverse(s) == [i \in 1..Len(s) |-> s[Len(s) + 1 - i]]

Abs(x) == IF x < 0 THEN -x ELSE x

RECURSIVE Gcd(_, _)
Gcd(a, b) == IF b = 0 THEN a ELSE Gcd(b, a % b)

\* ------------------------------------------------------------ Distribution
\* struct Distribution { occurrence_by_value: Vec<usize>, offset: isize }
Dist(v, o) == [occurrence_by_value |-> v, offset |-> o]

die(size) == Dist([i \in 1..size |-> 1], 1)

modifier(value) == Dist(<<1>>, value)

empty == Dist(<<>>, 0)

total(d) == SumSeq(d.occurrence_by_value)

\* num::rational::Ratio::new: the fraction in lowest terms; a zero
\* denominator panics.
Ratio(n, d) ==
    IF d = 0 THEN [numer |-> 0, denom |-> 0, panic |-> TRUE]
    ELSE [numer |-> n \div Gcd(n, d), denom |-> d \div Gcd(n, d), panic |-> FALSE]

RatioONE == [numer |-> 1, denom |-> 1, panic |-> FALSE]

probability(d, value) ==
    LET index == value - d.offset
    IN  IF index >= 0 /\ index < Len(d.occurrence_by_value)
        THEN Ratio(d.occurrence_by_value[index + 1], total(d))
        ELSE Ratio(0, 1)

min(d) == d.offset

max(d) == d.offset + Len(d.occurrence_by_value) - 1

\* The Occurrences iterator, collected: (value, occurrences) for every stored
\* entry with nonzero occurrence, ascending by value.
occurrences(d) ==
    LET v == d.occurrence_by_value
        pairs == [i \in 1..Len(v) |-> <<d.offset + i - 1, v[i]>>]
    IN  SelectSeq(pairs, LAMBDA p : p[2] # 0)

LeadingZeros(v) ==
    IF \A i \in 1..Len(v) : v[i] = 0 THEN Len(v)
    ELSE (CHOOSE i \in 1..Len(v) : v[i] # 0 /\ \A j \in 1..(i - 1) : v[j] = 0) - 1

\* Variant of clean that strips the leading zero entries only.
clean_drop_leading_only(d) ==
    LET lz == LeadingZeros(d.occurrence_by_value)
    IN  IF lz > 0
        THEN Dist(SubSeq(d.occurrence_by_value, lz + 1, Len(d.occurrence_by_value)),
                  d.offset + lz)
        ELSE d

clean(d) ==
    LET lz == LeadingZeros(d.occurrence_by_value)
        d1 == IF lz > 0
              THEN Dist(SubSeq(d.occurrence_by_value, lz + 1, Len(d.occurrence_by_value)),
                        d.offset + lz)
              ELSE d
        tz == LeadingZeros(Reverse(d1.occurrence_by_value))
    IN  Dist(SubSeq(d1.occurrence_by_value, 1, Len(d1.occurrence_by_value) - tz),
             d1.offset)

\* Vec::swap on 0-based indices.
Swap(v, i, j) == [v EXCEPT ![i + 1] = v[j + 1], ![j + 1] = v[i + 1]]

\* for i in (diff..len).rev() { v.swap(i, i - diff) }, entered at i = len - 1.
RECURSIVE SwapLoop(_, _, _)
SwapLoop(v, diff, i) ==
    IF i < diff THEN v
    ELSE LET swapped == Swap(v, i, i - diff)
         IN  IF Len(swapped) >= 0 THEN SwapLoop(swapped, diff, i - 1) ELSE swapped

\* Variant of add_occurrences that grows the vector downward without moving
\* the existing entries up.
add_occurrences_no_shift(d, value, occ) ==
    LET d1 == IF value < d.offset
              THEN Dist(d.occurrence_by_value \o Zeros(d.offset - value), value)
              ELSE d
        index == value - d1.offset
        v2 == IF index >= Len(d1.occurrence_by_value)
              THEN d1.occurrence_by_value \o Zeros(index + 1 - Len(d1.occurrence_by_value))
              ELSE d1.occurrence_by_value
    IN  Dist([v2 EXCEPT ![index + 1] = @ + occ], d1.offset)

add_occurrences(d, value, occ) ==
    LET d1 == IF value < d.offset
              THEN LET diff == d.offset - value
                       resized == d.occurrence_by_value \o Zeros(diff)
                   IN  Dist(SwapLoop(resized, diff, Len(resized) - 1), value)
              ELSE d
        index == value - d1.offset
        v2 == IF index >= Len(d1.occurrence_by_value)
              THEN d1.occurrence_by_value \o Zeros(index + 1 - Len(d1.occurrence_by_value))
              ELSE d1.occurrence_by_value
    IN  Dist([v2 EXCEPT ![index + 1] = @ + occ], d1.offset)

\* A loop whose body is `result.add_occurrences(val, occ)`, run over
\* items[lo..hi] (each <<val, occ>>) in iteration order. The range is split
\* in halves, the first half run before the second, which only bounds the
\* depth of evaluation; the calls and their order are those of the loop.
RECURSIVE AccumulateRange(_, _, _, _)
AccumulateRange(items, lo, hi, result) ==
    IF lo > hi THEN result
    ELSE IF lo = hi THEN add_occurrences(result, items[lo][1], items[lo][2])
    ELSE LET mid == (lo + hi) \div 2
             first == AccumulateRange(items, lo, mid, result)
         IN  IF Len(first.occurrence_by_value) >= 0
             THEN AccumulateRange(items, mid + 1, hi, first)
             ELSE first

Accumulate(items, result) == AccumulateRange(items, 1, Len(items), result)

\* itertools cartesian_product / nested for loops: the left iterator is the
\* outer loop.
cartesian_product(sa, sb) ==
    [k \in 1..(Len(sa) * Len(sb)) |->
        LET i == ((k - 1) \div Len(sb)) + 1
            j == ((k - 1) % Len(sb)) + 1
        IN  <<sa[i], sb[j]>>]

\* The number of occurrences stored for `value`: entry (value - offset) of
\* occurrence_by_value, and 0 outside the stored range.
occurrence(d, value) ==
    LET index == value - d.offset
    IN  IF index >= 0 /\ index < Len(d.occurrence_by_value)
        THEN d.occurrence_by_value[index + 1]
        ELSE 0

\* ------------------------------------------------------- Add, Neg, Sum
\* Variant of add that adds the two occurrence counts of a pair instead of
\* multiplying them.
add_sum_of_counts(a, b) ==
    LET pairs == cartesian_product(occurrences(a), occurrences(b))
    IN  Accumulate([i \in 1..Len(pairs) |->
                       <<pairs[i][1][1] + pairs[i][2][1], pairs[i][1][2] + pairs[i][2][2]>>],
                   empty)

\* impl Add<&Distribution> for &Distribution
add(a, b) ==
    LET pairs == cartesian_product(occurrences(a), occurrences(b))
    IN  Accumulate([i \in 1..Len(pairs) |->
                       <<pairs[i][1][1] + pairs[i][2][1], pairs[i][1][2] * pairs[i][2][2]>>],
                   empty)

\* impl Neg for &Distribution
neg(d) ==
    LET magnitude == (Len(d.occurrence_by_value) - 1) + d.offset
    IN  Dist(Reverse(d.occurrence_by_value), -magnitude)

RECURSIVE reduce_add(_, _)
reduce_add(a, rest) ==
    IF rest = <<>> THEN a ELSE reduce_add(add(a, Head(rest)), Tail(rest))

\* impl Sum for Distribution: iter.reduce(|a, b| a + b), modifier(0) when empty.
sum(terms) ==
    IF terms = <<>> THEN modifier(0) ELSE reduce_add(Head(terms), Tail(terms))

\* ------------------------------------------------------------ outcomes
\* Result<Distribution, Error>, with two observations of the run that
\* produced it: how many combinations a repetition enumerated and which
\* divisors a floor division divided by.
Outcome(e, d, c, dv) == [err |-> e, d |-> d, combos |-> c, divisors |-> dv]

Ok(d) == Outcome("none", d, 0, {})

Err(e) == Outcome(e, empty, 0, {})

\* ---------------------------------------------------------------- repeat
Rankers ==
    {[kind |-> "All", n |-> 0]}
        \cup {[kind |-> k, n |-> n] : k \in {"Highest", "Lowest"}, n \in 0..MaxKeep}

\* Ranker::count(): the number of dice the ranker keeps; All asks for none
\* in particular.
ranker_count(r) == IF r.kind = "All" THEN 0 ELSE r.n

RECURSIVE InsertAsc(_, _)
InsertAsc(x, s) ==
    IF s = <<>> THEN <<x>>
    ELSE IF x < Head(s) THEN <<x>> \o s
    ELSE <<Head(s)>> \o InsertAsc(x, Tail(s))

\* v.sort()
RECURSIVE SortAsc(_)
SortAsc(s) == IF s = <<>> THEN <<>> ELSE InsertAsc(Head(s), SortAsc(Tail(s)))

\* v.sort_by(|v1, v2| v2.cmp(v1))
SortDesc(s) == Reverse(SortAsc(s))

keep_all(v, n) == v

\* Variant of keep_highest that truncates without sorting.
keep_highest_unsorted(v, n) == SubSeq(v, 1, n)

keep_highest(v, n) == SubSeq(SortDesc(v), 1, n)

keep_lowest(v, n) == SubSeq(SortAsc(v), 1, n)

filter(ranker, v, n) ==
    CASE ranker.kind = "All" -> keep_all(v, n)
      [] ranker.kind = "Highest" -> keep_highest(v, n)
      [] ranker.kind = "Lowest" -> keep_lowest(v, n)

\* itertools multi_cartesian_product over n clones of the iterator `it`
\* (std::iter::repeat(&value).map(occurrences).take(n)): every n-tuple of
\* its items, the last position advancing fastest; the product of no
\* iterators is the single empty tuple.
multi_cartesian_product(it, n) ==
    [t \in 1..Pow(Len(it), n) |->
        [k \in 1..n |-> it[(((t - 1) \div Pow(Len(it), n - k)) % Len(it)) + 1]]]

\* The (value, occurrences) pairs the enumeration loop of repeat hands to
\* add_occurrences, in order.
repeat_items(count, value, ranker) ==
    LET keep_count == ranker_count(ranker)
        counts == occurrences(count)
    IN  Flatten([c \in 1..Len(counts) |->
            LET n == counts[c][1]
                count_frequency == counts[c][2]
                sets == multi_cartesian_product(occurrences(value), n)
            IN  [t \in 1..Len(sets) |->
                    LET values == [k \in 1..n |-> sets[t][k][1]]
                        frequencies == [k \in 1..n |-> sets[t][k][2]]
                    IN  <<SumSeq(filter(ranker, values, keep_count)),
                          ProductSeq(frequencies) * count_frequency>>]])

\* Variant of the negative-count check that also rejects a minimum of 0.
negative_count_check_le(count) == min(count) <= 0

\* if count.min() < 0 { return Err(NegativeCount) }
negative_count_check(count) == min(count) < 0

\* if (count.min() as usize) < ranker.count() { return Err(KeepTooFew) }
keep_too_few_check(count, ranker) == min(count) < ranker_count(ranker)

repeat(count, value, ranker) ==
    IF negative_count_check(count) THEN Err("NegativeCount")
    ELSE IF keep_too_few_check(count, ranker) THEN Err("KeepTooFew")
    ELSE LET items == repeat_items(count, value, ranker)
         IN  Outcome("none", Accumulate(items, empty), Len(items), {})

\* ------------------------------------------- product, floor, comparison
product(a, b) ==
    LET pairs == cartesian_product(occurrences(a), occurrences(b))
    IN  Accumulate([i \in 1..Len(pairs) |->
                       <<pairs[i][1][1] * pairs[i][2][1], pairs[i][1][2] * pairs[i][2][2]>>],
                   empty)

\* isize `/`: the quotient rounded toward zero (the divisor is not 0).
Div(v1, v2) ==
    LET q == Abs(v1) \div Abs(v2)
    IN  IF (v1 < 0) = (v2 < 0) THEN q ELSE -q

\* Variant of the divisor check that tests whether 0 lies in the stored
\* range instead of whether it occurs.
divisor_check_range(b) == min(b) <= 0 /\ 0 <= max(b)

\* if *b.probability(0).numer() != 0 { return Err(DivideByZero) }
divisor_check(b) == probability(b, 0).numer # 0

floor(a, b) ==
    IF divisor_check(b) THEN Err("DivideByZero")
    ELSE LET pairs == cartesian_product(occurrences(a), occurrences(b))
             divisors == {pairs[i][2][1] : i \in 1..Len(pairs)}
         IN  IF 0 \in divisors THEN Outcome("panic", empty, 0, divisors)
             ELSE Outcome("none",
                          Accumulate([i \in 1..Len(pairs) |->
                                         <<Div(pairs[i][1][1], pairs[i][2][1]),
                                           pairs[i][1][2] * pairs[i][2][2]>>],
                                     empty),
                          0, divisors)

ComparisonOps == {"Gt", "Ge", "Eq", "Le", "Lt"}

Holds(op, a, b) ==
    CASE op = "Gt" -> a > b
      [] op = "Ge" -> a >= b
      [] op = "Eq" -> a = b
      [] op = "Le" -> a <= b
      [] op = "Lt" -> a < b

\* Variant of comparison without the always-true / always-false shortcut.
comparison_no_collapse(a, op, b) ==
    LET pairs == cartesian_product(occurrences(a), occurrences(b))
    IN  Accumulate([i \in 1..Len(pairs) |->
                       <<IF Holds(op, pairs[i][1][1], pairs[i][2][1]) THEN 1 ELSE 0,
                         pairs[i][1][2] * pairs[i][2][2]>>],
                   empty)

comparison(a, op, b) ==
    LET pairs == cartesian_product(occurrences(a), occurrences(b))
        d == Accumulate([i \in 1..Len(pairs) |->
                            <<IF Holds(op, pairs[i][1][1], pairs[i][2][1]) THEN 1 ELSE 0,
                              pairs[i][1][2] * pairs[i][2][2]>>],
                        empty)
    IN  IF probability(d, 0) = RatioONE THEN modifier(0)
        ELSE IF probability(d, 1) = RatioONE THEN modifier(1)
        ELSE d

\* ================================================================ state
VARIABLES
    stack,   \* distributions of the subexpressions evaluated so far whose
             \* parent node is still to be evaluated (post-order recursion)
    last,    \* the node evaluated last: its kind, operands and outcome
    status,  \* "running" | "failed" (an Err propagated) | "done"
    out,     \* the Distribution returned by Expression::distribution
    nodes,   \* number of expression nodes evaluated
    acc,     \* a Distribution under construction by add_occurrences
    call     \* the add_occurrences call made last on acc

vars == <<stack, last, status, out, nodes, acc, call>>

NoRanker == [kind |-> "none", n |-> 0]

Node(op, args, ranker, cmp, res) ==
    [op |-> op, args |-> args, ranker |-> ranker, cmp |-> cmp, res |-> res]

NoCall == [n |-> 0, value |-> 0, occurrences |-> 0, before |-> empty]

Init ==
    /\ stack = <<>>
    /\ last = Node("none", <<>>, NoRanker, "none", Ok(empty))
    /\ status = "running"
    /\ out = empty
    /\ nodes = 0
    /\ acc = empty
    /\ call = NoCall

\* One arm of distribution_internal returns: Ok pushes the node's
\* distribution for its parent, Err (`?`) abandons the whole evaluation.
Return(node, below) ==
    /\ last' = node
    /\ nodes' = nodes + 1
    /\ IF node.res.err = "none"
       THEN stack' = Append(below, node.res.d) /\ status' = "running"
       ELSE stack' = <<>> /\ status' = "failed"
    /\ UNCHANGED <<out, acc, call>>

\* A node with `arity` children can be evaluated next: its children are the
\* top of the stack, and the expression it belongs to has at most MaxNodes
\* nodes (after the last node only the root's distribution is pending).
CanEvaluate(arity) ==
    /\ status = "running"
    /\ nodes < MaxNodes
    /\ Len(stack) >= arity
    /\ Len(stack) - arity < MaxDepth
    /\ (nodes + 1 = MaxNodes) => (Len(stack) - arity = 0)

Below(arity) == SubSeq(stack, 1, Len(stack) - arity)

Top(arity) == SubSeq(stack, Len(stack) - arity + 1, Len(stack))

\* Expression::Modifier(m) => Ok(Distribution::modifier(*m as isize))
Modifier ==
    /\ CanEvaluate(0)
    /\ \E m \in (-MaxMod)..MaxMod :
          Return(Node("Modifier", <<>>, NoRanker, "none", Ok(modifier(m))), stack)

\* Expression::Die(d) => Ok(Distribution::die(*d))
Die ==
    /\ CanEvaluate(0)
    /\ \E d \in 1..MaxDie :
          Return(Node("Die", <<>>, NoRanker, "none", Ok(die(d))), stack)

\* Expression::Negated(expression) => Ok(-(expression.distribution_internal()?))
Negated ==
    /\ CanEvaluate(1)
    /\ Return(Node("Negated", Top(1), NoRanker, "none", Ok(neg(Top(1)[1]))), Below(1))

\* Expression::Repeated { count, value, ranker } => repeat(self, count, value, ranker)
Repeated ==
    /\ CanEvaluate(2)
    /\ max(Top(2)[1]) <= MaxCount
    /\ \E ranker \in Rankers :
          Return(Node("Repeated", Top(2), ranker, "none",
                      repeat(Top(2)[1], Top(2)[2], ranker)), Below(2))

\* Expression::Product(a, b) => Ok(product(a, b))
Product ==
    /\ CanEvaluate(2)
    /\ Return(Node("Product", Top(2), NoRanker, "none",
                   Ok(product(Top(2)[1], Top(2)[2]))), Below(2))

\* Expression::Floor(a, b) => floor(self, a, b)
Floor ==
    /\ CanEvaluate(2)
    /\ Return(Node("Floor", Top(2), NoRanker, "none",
                   floor(Top(2)[1], Top(2)[2])), Below(2))

\* Expression::Sum(expressions) => Ok(terms?.into_iter().sum())
Sum ==
    \E arity \in 0..MaxDepth :
        /\ CanEvaluate(arity)
        /\ Return(Node("Sum", Top(arity), NoRanker, "none", Ok(sum(Top(arity)))),
                  Below(arity))

\* Expression::Comparison(a, op, b) => Ok(comparison(a, *op, b))
Comparison ==
    /\ CanEvaluate(2)
    /\ \E op \in ComparisonOps :
          Return(Node("Comparison", Top(2), NoRanker, op,
                      Ok(comparison(Top(2)[1], op, Top(2)[2]))), Below(2))

\* Expression::distribution: the root's distribution_internal result, cleaned.
Distribution ==
    /\ status = "running"
    /\ Len(stack) = 1
    /\ out' = clean(stack[1])
    /\ status' = "done"
    /\ last' = Node("distribution", stack, NoRanker, "none", Ok(clean(stack[1])))
    /\ stack' = <<>>
    /\ UNCHANGED <<nodes, acc, call>>

Next ==
    \/ Modifier
    \/ Die
    \/ Negated
    \/ Repeated
    \/ Product
    \/ Floor
    \/ Sum
    \/ Comparison
    \/ Distribution

Spec == Init /\ [][Next]_vars

\* The public Distribution interface alone: die, modifier, unary minus, +
\* and Sum.
NextApi ==
    \/ Modifier
    \/ Die
    \/ Negated
    \/ Sum

SpecApi == Init /\ [][NextApi]_vars

\* A run of add_occurrences calls on one accumulator, from Distribution::empty().
AddOccurrences ==
    /\ call.n < MaxCalls
    /\ \E value \in (-MaxValue)..MaxValue, occ \in 0..MaxOcc :
          /\ acc' = add_occurrences(acc, value, occ)
          /\ call' = [n |-> call.n + 1, value |-> value, occurrences |-> occ,
                      before |-> acc]
    /\ UNCHANGED <<stack, last, status, out, nodes>>

NextAcc == AddOccurrences

SpecAcc == Init /\ [][NextAcc]_vars

\* ======================================================== properties
\* Vocabulary of the properties: sums over integer ranges, the occurring
\* values of a distribution, mathematical floor division, the k largest /
\* smallest entries of a tuple.

\* Sum of f[i] for i in lo..hi, for any function f on that range.
SumOver(f, lo, hi) == SumRange(f, lo, hi)

Occurs(d, v) == occurrence(d, v) # 0

Support(d) == {v \in min(d)..max(d) : Occurs(d, v)}

SmallestOccurring(d) == CHOOSE v \in Support(d) : \A w \in Support(d) : v <= w

LargestOccurring(d) == CHOOSE v \in Support(d) : \A w \in Support(d) : w <= v

\* The integers a result can be asked about: its stored range and the range
\* of candidate values lo..hi, with a margin on both sides.
Window(d, lo, hi) ==
    ((IF min(d) < lo THEN min(d) ELSE lo) - 2)..((IF max(d) > hi THEN max(d) ELSE hi) + 2)

\* Sum of a.occurrence(v1) * b.occurrence(v2) over the pairs of values
\* (v1, v2) that satisfy P.
PairSum(a, b, P(_, _)) ==
    SumOver([v1 \in min(a)..max(a) |->
                SumOver([v2 \in min(b)..max(b) |->
                            IF Occurs(a, v1) /\ Occurs(b, v2) /\ P(v1, v2)
                            THEN occurrence(a, v1) * occurrence(b, v2)
                            ELSE 0],
                        min(b), max(b))],
            min(a), max(a))

\* floor(v1 / v2) for v2 # 0: the largest integer q with q * v2 <= v1
\* (v2 > 0), resp. q * v2 >= v1 (v2 < 0).
FloorDiv(v1, v2) ==
    CHOOSE q \in (-Abs(v1) - 1)..(Abs(v1) + 1) :
        IF v2 > 0 THEN q * v2 <= v1 /\ v1 < (q + 1) * v2
        ELSE q * v2 >= v1 /\ v1 > (q + 1) * v2

RemoveAt(t, i) == [j \in 1..(Len(t) - 1) |-> IF j < i THEN t[j] ELSE t[j + 1]]

RECURSIVE LargestSum(_, _)
LargestSum(t, k) ==
    IF k = 0 THEN 0
    ELSE LET i == CHOOSE i \in 1..Len(t) : \A j \in 1..Len(t) : t[j] <= t[i]
         IN  t[i] + LargestSum(RemoveAt(t, i), k - 1)

RECURSIVE SmallestSum(_, _)
SmallestSum(t, k) ==
    IF k = 0 THEN 0
    ELSE LET i == CHOOSE i \in 1..Len(t) : \A j \in 1..Len(t) : t[i] <= t[j]
         IN  t[i] + SmallestSum(RemoveAt(t, i), k - 1)

\* The sum of the dice of roll t that the ranker keeps.
KeptSum(t, ranker) ==
    CASE ranker.kind = "All" -> SumOver(t, 1, Len(t))
      [] ranker.kind = "Highest" -> LargestSum(t, ranker.n)
      [] ranker.kind = "Lowest" -> SmallestSum(t, ranker.n)

\* Sum, over the ordered rolls of n dice of x that extend `roll` and whose
\* kept dice sum to s, of the product of the per-die occurrences of the
\* dice still to be rolled.
RECURSIVE RollWeight(_, _, _, _, _)
RollWeight(x, n, roll, ranker, s) ==
    IF Len(roll) = n THEN (IF KeptSum(roll, ranker) = s THEN 1 ELSE 0)
    ELSE SumOver([v \in min(x)..max(x) |->
                     IF Occurs(x, v)
                     THEN occurrence(x, v) * RollWeight(x, n, Append(roll, v), ranker, s)
                     ELSE 0],
                 min(x), max(x))

\* The occurrence count the repetition of x, count and ranker gives to s.
RepeatWeight(count, x, ranker, s) ==
    SumOver([n \in min(count)..max(count) |->
                IF Occurs(count, n)
                THEN occurrence(count, n) * RollWeight(x, n, <<>>, ranker, s)
                ELSE 0],
            min(count), max(count))

\* ------------------------------------------------------------------ C1
\* C1: the sum a + b gives every integer v the occurrence count
\* sum of a.occurrence(v1) * b.occurrence(v2) over the pairs of occurring
\* values with v1 + v2 = v, and (a + b).total() = a.total() * b.total().
C1_AddIsConvolution ==
    (last.op = "Sum" /\ Len(last.args) = 2) =>
        LET a == last.args[1]
            b == last.args[2]
            r == last.res.d
        IN  /\ \A v \in Window(r, min(a) + min(b), max(a) + max(b)) :
                  occurrence(r, v) = PairSum(a, b, LAMBDA v1, v2 : v1 + v2 = v)
            /\ total(r) = total(a) * total(b)

\* A sum of two operands with several occurring values each, where some
\* value of the sum is reached by more than one pair.
C1_Witness ==
    /\ last.op = "Sum"
    /\ Len(last.args) = 2
    /\ Cardinality(Support(last.args[1])) >= 2
    /\ Cardinality(Support(last.args[2])) >= 2
    /\ \E v \in Support(last.res.d) : occurrence(last.res.d, v) >= 2

\* ------------------------------------------------------------------ C2
\* C2: when the divisor has zero occurrence at 0, floor(a, b) succeeds and
\* gives every integer q the sum of f1 * f2 over the occurring pairs whose
\* floor division floor(v1 / v2) is q, for negative values as for positive.
C2_FloorIsFloorDivision ==
    (last.op = "Floor" /\ ~Occurs(last.args[2], 0)) =>
        LET a == last.args[1]
            b == last.args[2]
            r == last.res.d
            m == (IF Abs(min(a)) > Abs(max(a)) THEN Abs(min(a)) ELSE Abs(max(a))) + 1
        IN  /\ last.res.err = "none"
            /\ \A q \in Window(r, -m, m) :
                  occurrence(r, q) = PairSum(a, b, LAMBDA v1, v2 : FloorDiv(v1, v2) = q)

\* ------------------------------------------------------------------ C3
\* C3: a repetition fails with KeepTooFew exactly when no possible count
\* is negative and the smallest count with nonzero occurrence is below the
\* ranker's keep-count, whatever node produced the count.
C3_KeepTooFewExactly ==
    last.op = "Repeated" =>
        LET count == last.args[1]
        IN  (last.res.err = "KeepTooFew") <=>
                /\ \A n \in Support(count) : n >= 0
                /\ SmallestOccurring(count) < ranker_count(last.ranker)

\* ------------------------------------------------------------------ C4
\* C4: a repetition fails with NegativeCount exactly when the count has
\* nonzero occurrence at some negative value; that check comes first (the
\* error is NegativeCount also when the keep-count exceeds the smallest
\* count) and nothing is enumerated or returned on that failure.
C4_NegativeCountExactly ==
    last.op = "Repeated" =>
        LET count == last.args[1]
            negative == \E n \in Support(count) : n < 0
        IN  /\ (last.res.err = "NegativeCount") <=> negative
            /\ (negative /\ SmallestOccurring(count) < ranker_count(last.ranker))
                   => last.res.err = "NegativeCount"
            /\ last.res.err = "NegativeCount"
                   => (last.res.combos = 0 /\ last.res.d = empty /\ stack = <<>>)

\* A count of several possible values, some negative, with a keep-count
\* above its smallest value: the error is NegativeCount.
C4_Witness ==
    /\ last.op = "Repeated"
    /\ last.res.err = "NegativeCount"
    /\ Cardinality(Support(last.args[1])) >= 2
    /\ SmallestOccurring(last.args[1]) < ranker_count(last.ranker)

\* ------------------------------------------------------------------ C5
\* C5: a floor division fails with DivideByZero exactly when the divisor
\* has nonzero occurrence at 0; no division by 0 is performed, and on
\* failure nothing was divided and no distribution is returned.
C5_DivideByZeroExactly ==
    last.op = "Floor" =>
        /\ (last.res.err = "DivideByZero") <=> Occurs(last.args[2], 0)
        /\ 0 \notin last.res.divisors
        /\ last.res.err # "panic"
        /\ last.res.err = "DivideByZero"
               => (last.res.divisors = {} /\ last.res.d = empty /\ stack = <<>>)

\* A divisor that is 0 only some of the time.
C5_Witness ==
    /\ last.op = "Floor"
    /\ last.res.err = "DivideByZero"
    /\ \E v \in Support(last.args[2]) : v # 0

\* ------------------------------------------------------------------ C6
\* C6: a comparison has occurrences only at 0 and 1; it is exactly the
\* point mass at 1 (total 1) if the predicate holds for every pair, exactly
\* the point mass at 0 (total 1) if it fails for every pair, and otherwise
\* counts f1 * f2 at 1 (resp. 0) over the satisfying (resp. violating)
\* pairs, with total a.total() * b.total().
C6_Comparison ==
    last.op = "Comparison" =>
        LET a == last.args[1]
            b == last.args[2]
            r == last.res.d
            yes == PairSum(a, b, LAMBDA v1, v2 : Holds(last.cmp, v1, v2))
            no == PairSum(a, b, LAMBDA v1, v2 : ~Holds(last.cmp, v1, v2))
        IN  /\ \A v \in Window(r, 0, 1) : Occurs(r, v) => v \in {0, 1}
            /\ no = 0 => r = modifier(1)
            /\ yes = 0 => r = modifier(0)
            /\ (yes > 0 /\ no > 0) =>
                   /\ occurrence(r, 1) = yes
                   /\ occurrence(r, 0) = no
                   /\ total(r) = total(a) * total(b)

\* An always-true comparison of operands with several pairs of values.
C6_Witness ==
    /\ last.op = "Comparison"
    /\ last.res.d = modifier(1)
    /\ total(last.args[1]) * total(last.args[2]) >= 4

\* ------------------------------------------------------------------ C7
\* C7: for every Distribution obtained through die, modifier, +, unary
\* minus and Sum, min() is the smallest and max() the largest value with
\* nonzero occurrence.
C7_MinMaxAreOccurring ==
    \A i \in 1..Len(stack) :
        /\ min(stack[i]) = SmallestOccurring(stack[i])
        /\ max(stack[i]) = LargestOccurring(stack[i])

\* ------------------------------------------------------------------ C8
\* C8: the distribution Expression::distribution returns is canonical:
\* non-empty with total() > 0, first and last stored entries nonzero, and
\* it is the uncleaned result with only its leading and trailing zero
\* entries removed, the offset moved up by the number of leading zeros.
C8_DistributionIsCanonical ==
    status = "done" =>
        LET raw == last.args[1].occurrence_by_value
            lz == Cardinality({i \in 1..Len(raw) : \A j \in 1..i : raw[j] = 0})
            tz == Cardinality({i \in 1..Len(raw) : \A j \in i..Len(raw) : raw[j] = 0})
            v == out.occurrence_by_value
        IN  /\ Len(v) > 0
            /\ total(out) > 0
            /\ v[1] # 0
            /\ v[Len(v)] # 0
            /\ \A x \in Window(out, min(last.args[1]), max(last.args[1])) :
                  occurrence(out, x) = occurrence(last.args[1], x)
            /\ out.offset = last.args[1].offset + lz
            /\ v = SubSeq(raw, lz + 1, Len(raw) - tz)

\* An evaluation whose uncleaned result has leading zero entries.
C8_Witness ==
    /\ status = "done"
    /\ out.offset >= last.args[1].offset + 2

\* ------------------------------------------------------------------ C9
\* C9: a successful repetition gives every integer s the sum, over the
\* occurring counts n (weight w_n) and the ordered n-tuples of occurring
\* values of X whose kept values sum to s, of w_n times the product of the
\* per-die occurrences; its total is the sum of w_n * X.total()^n; with
\* ranker All and a single possible count n it is the n-fold sum
\* X + ... + X (scaled by the weight of n).
C9_RepeatEnumeratesRolls ==
    (last.op = "Repeated" /\ last.res.err = "none") =>
        LET count == last.args[1]
            x == last.args[2]
            r == last.res.d
            lo == IF min(x) < 0 THEN max(count) * min(x) ELSE 0
            hi == IF max(x) > 0 THEN max(count) * max(x) ELSE 0
        IN  /\ \A s \in Window(r, lo, hi) :
                  occurrence(r, s) = RepeatWeight(count, x, last.ranker, s)
            /\ total(r) = SumOver([n \in min(count)..max(count) |->
                                      occurrence(count, n) * Pow(total(x), n)],
                                  min(count), max(count))
            /\ (last.ranker.kind = "All" /\ Cardinality(Support(count)) = 1) =>
                   LET n == SmallestOccurring(count)
                       fold == sum([k \in 1..n |-> x])
                   IN  \A s \in Window(r, min(fold), max(fold)) :
                          occurrence(r, s) = occurrence(count, n) * occurrence(fold, s)

\* Two or more dice with several faces rolled, fewer kept than rolled.
C9_Witness ==
    /\ last.op = "Repeated"
    /\ last.res.err = "none"
    /\ last.ranker.kind = "Highest"
    /\ last.ranker.n = 1
    /\ \E n \in Support(last.args[1]) : n >= 2
    /\ Cardinality(Support(last.args[2])) >= 2

\* ----------------------------------------------------------------- C10
\* C10: add_occurrences(value, count) raises the occurrence count at value
\* by exactly count, leaves every other integer's count unchanged (also
\* when the stored range grows downward or upward), raises total() by
\* count, and the stored range afterwards contains value and every value
\* it contained before.
C10_AddOccurrencesFrame ==
    call.n > 0 =>
        /\ \A v \in Window(acc, -MaxValue, MaxValue) :
              occurrence(acc, v) =
                  occurrence(call.before, v) + (IF v = call.value THEN call.occurrences ELSE 0)
        /\ total(acc) = total(call.before) + call.occurrences
        /\ min(acc) <= call.value /\ call.value <= max(acc)
        /\ \A v \in min(call.before)..max(call.before) : min(acc) <= v /\ v <= max(acc)

\* A call below the stored range of an accumulator that already holds
\* occurrences at two values: the existing entries are shifted.
C10_Witness ==
    /\ call.n > 0
    /\ call.value < min(call.before)
    /\ Cardinality(Support(call.before)) >= 2
    /\ call.occurrences > 0

====
